---- MODULE Spec2Model ----
(***************************************************************************)
(* spoonbill: the flattening engine (flatten.py) and the pointer helpers   *)
(* of utils.py.                                                            *)
(*                                                                         *)
(* Strings are sequences of atoms: "ocid1/top" is <<"ocid1", "/", "top">>, *)
(* the empty string is <<>>, concatenation is \o.  An atom stands for a    *)
(* non-empty run of characters holding no '/', ':' or '|'.                 *)
(* JSON values are records of one shape, tagged by t.                      *)
(***************************************************************************)
EXTENDS Integers, Sequences, FiniteSets, TLC

(*************************** strings ***************************************)
Empty == <<>>
S(a) == <<a>>
separator == <<"/">>

\* str.join: the parts with sep between them
RECURSIVE str_join(_, _)
str_join(sep, parts) ==
    IF Len(parts) = 0 THEN Empty
    ELSE IF Len(parts) = 1 THEN parts[1]
    ELSE parts[1] \o sep \o str_join(sep, Tail(parts))

\* str.split(sep) for a one-atom sep: always at least one piece
RECURSIVE str_split(_, _)
str_split(string, sep) ==
    IF \A i \in 1..Len(string) : string[i] # sep THEN <<string>>
    ELSE LET i == CHOOSE j \in 1..Len(string) :
                      string[j] = sep /\ \A k \in 1..(j - 1) : string[k] # sep
         IN  <<SubSeq(string, 1, i - 1)>>
             \o str_split(SubSeq(string, i + 1, Len(string)), sep)

\* str(index) of enumerate()
Digits == <<"0", "1", "2", "3", "4", "5", "6", "7", "8", "9">>
str(i) == <<Digits[i + 1]>>

(*************************** JSON values ***********************************)
VNone == [t |-> "none", s |-> Empty, n |-> 0, keys |-> <<>>, kids |-> <<>>]
VStr(s) == [t |-> "str", s |-> s, n |-> 0, keys |-> <<>>, kids |-> <<>>]
VInt(n) == [t |-> "int", s |-> Empty, n |-> n, keys |-> <<>>, kids |-> <<>>]
VList(kids) == [t |-> "list", s |-> Empty, n |-> 0, keys |-> <<>>, kids |-> kids]
VObj(keys, kids) == [t |-> "dict", s |-> Empty, n |-> 0, keys |-> keys, kids |-> kids]
EmptyDict == VObj(<<>>, <<>>)

HasKey(obj, key) == \E i \in 1..Len(obj.keys) : obj.keys[i] = key
\* dict.get(key, default)
Get(obj, key, default) ==
    IF HasKey(obj, key)
    THEN obj.kids[CHOOSE i \in 1..Len(obj.keys) : obj.keys[i] = key]
    ELSE default

\* an f-string's "{value}"
format(v) ==
    CASE v.t = "str" -> v.s
      [] v.t = "none" -> S("None")
      [] v.t = "int" -> str(v.n)
      [] OTHER -> S("<repr>")

\* bool(value) of an `if value`
truthy(v) ==
    CASE v.t = "str" -> v.s # Empty
      [] v.t = "none" -> FALSE
      [] v.t = "int" -> v.n # 0
      [] OTHER -> Len(v.kids) > 0

(*************************** generate_row_id *******************************)
generate_row_id(ocid, item_id, parent_key, top_level_id) ==
    LET tail == IF parent_key # Empty
                THEN parent_key \o S(":") \o format(item_id)
                ELSE format(item_id)
    IN  IF truthy(top_level_id)
        THEN format(ocid) \o S("/") \o format(top_level_id) \o S("/") \o tail
        ELSE format(ocid) \o S("/") \o tail

(*************************** the Table model *******************************)
\* pointers of the analysed schema
P_tender == <<"/", "tender">>
P_tender_id == <<"/", "tender", "/", "id">>
P_tender_tags == <<"/", "tender", "/", "tags">>
P_tender_items == <<"/", "tender", "/", "items">>
P_items_id == <<"/", "tender", "/", "items", "/", "id">>
P_items_0_id == <<"/", "tender", "/", "items", "/", "0", "/", "id">>
P_items_1_id == <<"/", "tender", "/", "items", "/", "1", "/", "id">>
P_items_class == <<"/", "tender", "/", "items", "/", "additionalClassifications">>
P_class_id == <<"/", "tender", "/", "items", "/", "additionalClassifications", "/", "id">>
P_parties == <<"/", "parties">>
P_parties_id == <<"/", "parties", "/", "id">>
P_missing == <<"/", "tender", "/", "missing">>

\* the type tag of an array of scalars, and the delimiter it is joined with
JOINABLE == "|"

Column(id, title, type) == [id |-> id, title |-> title, type |-> type, hits |-> 1]
NoTable == ""
TableNames == {"tenders", "tenders_items", "tenders_items_class", "parties"}

\* A mapping with string keys, as a function; the empty mapping
EmptyMap == [k \in {} |-> 0]
MapSet(m, k, v) == [x \in DOMAIN m \cup {k} |-> IF x = k THEN v ELSE m[x]]
MapGet(m, k, default) == IF k \in DOMAIN m THEN m[k] ELSE default

\* An ordered mapping of columns keyed by column id: the columns in key order
ColIds(cols) == {cols[i].id : i \in 1..Len(cols)}
ColGet(cols, id) == cols[CHOOSE i \in 1..Len(cols) : cols[i].id = id]
ColSet(cols, id, col) ==
    IF id \in ColIds(cols)
    THEN [i \in 1..Len(cols) |-> IF cols[i].id = id THEN col ELSE cols[i]]
    ELSE Append(cols, col)

\* The tables an analysis of tender/items/additionalClassifications and parties
\* data leaves: `scalars` says whether the plain scalar columns were registered,
\* `zero` names a table that was analysed with no rows (NoTable: none).
Tables(zero, scalars) ==
    LET rowsOf(name) == IF name = zero THEN 0 ELSE 2
        sc(cols) == IF scalars THEN cols ELSE <<>>
        ty(m) == IF scalars THEN m ELSE EmptyMap
    IN  [name \in TableNames |->
          CASE name = "tenders" ->
                 [name |-> name, path |-> {P_tender}, total_rows |-> rowsOf(name),
                  parent |-> NoTable, is_root |-> TRUE,
                  child_tables |-> <<"tenders_items">>,
                  types |-> (P_tender :> "object") @@ (P_tender_tags :> JOINABLE)
                            @@ (P_tender_items :> "array") @@ ty(P_tender_id :> "string"),
                  arrays |-> (P_tender_items :> 2),
                  columns |-> sc(<<Column(P_tender_id, S("Tender ID"), "string")>>)
                              \o <<Column(P_tender_tags, S("Tags"), JOINABLE)>>,
                  combined_columns |->
                      sc(<<Column(P_tender_id, S("Tender ID"), "string")>>)
                      \o <<Column(P_tender_tags, S("Tags"), JOINABLE)>>
                      \o sc(<<Column(P_items_0_id, S("Item ID"), "string"),
                              Column(P_items_1_id, S("Item ID"), "string")>>),
                  titles |-> (P_tender_tags :> S("Tags"))
                             @@ ty((P_tender_id :> S("Tender ID"))
                                   @@ (P_items_0_id :> S("Item ID"))
                                   @@ (P_items_1_id :> S("Item ID")))]
            [] name = "tenders_items" ->
                 [name |-> name, path |-> {P_tender_items}, total_rows |-> rowsOf(name),
                  parent |-> "tenders", is_root |-> FALSE,
                  child_tables |-> <<"tenders_items_class">>,
                  types |-> (P_items_class :> "array") @@ ty(P_items_id :> "string"),
                  arrays |-> (P_items_class :> 1),
                  columns |-> sc(<<Column(P_items_id, S("Item ID"), "string")>>),
                  combined_columns |-> sc(<<Column(P_items_id, S("Item ID"), "string")>>),
                  titles |-> ty(P_items_id :> S("Item ID"))]
            [] name = "tenders_items_class" ->
                 [name |-> name, path |-> {P_items_class}, total_rows |-> rowsOf(name),
                  parent |-> "tenders_items", is_root |-> FALSE,
                  child_tables |-> <<>>,
                  types |-> ty(P_class_id :> "string"),
                  arrays |-> EmptyMap,
                  columns |-> sc(<<Column(P_class_id, S("Classification ID"), "string")>>),
                  combined_columns |->
                      sc(<<Column(P_class_id, S("Classification ID"), "string")>>),
                  titles |-> ty(P_class_id :> S("Classification ID"))]
            [] OTHER ->
                 [name |-> name, path |-> {P_parties}, total_rows |-> rowsOf(name),
                  parent |-> NoTable, is_root |-> TRUE,
                  child_tables |-> <<>>,
                  types |-> (P_parties :> "array") @@ ty(P_parties_id :> "string"),
                  arrays |-> (P_parties :> 2),
                  columns |-> sc(<<Column(P_parties_id, S("Party ID"), "string")>>),
                  combined_columns |-> sc(<<Column(P_parties_id, S("Party ID"), "string")>>),
                  titles |-> ty(P_parties_id :> S("Party ID"))]]

\* Table.__iter__ / Table.__contains__: the ids of Table.columns
TableIter(table) == [i \in 1..Len(table.columns) |-> table.columns[i].id]
TableContains(table, pointer) == pointer \in ColIds(table.columns)

\* Table.add_column: the column is registered in both column sets and titled
add_column(table, path, title, type) ==
    LET col == [id |-> path, title |-> title, type |-> type, hits |-> 0]
    IN  [table EXCEPT !.columns = ColSet(@, path, col),
                      !.combined_columns = ColSet(@, path, col),
                      !.titles = MapSet(@, path, title)]

\* Table.inc_column: one more hit of the column
inc_column(table, path) ==
    LET bump(cols) == [i \in 1..Len(cols) |->
                          IF cols[i].id = path
                          THEN [cols[i] EXCEPT !.hits = @ + 1] ELSE cols[i]]
    IN  [table EXCEPT !.columns = bump(@), !.combined_columns = bump(@)]

\* get_root: up the parent links
RECURSIVE get_root(_, _)
get_root(tables, name) ==
    IF tables[name].parent # NoTable THEN get_root(tables, tables[name].parent) ELSE name

(*************************** TableFlattenConfig ****************************)
TableFlattenConfig(split, repeat, unnest) ==
    [split |-> split, repeat |-> repeat, unnest |-> unnest, name |-> Empty]

(*************************** state *****************************************)
VARIABLES
    given,          \* what the caller supplied: selection, tables order, count, releases
    tables,         \* the Table objects, by name (shared with the caller, mutated in place)
    self_tables,    \* Flattener.tables: the names it maps, in insertion order
    selection,      \* Flattener.options.selection (the caller's mapping object)
    lookup_cache,   \* Flattener._lookup_cache: pointer -> table name
    types_cache,    \* Flattener._types_cache
    path_cache,     \* Flattener._path_cache
    warnings,       \* LOGGER.warning calls of the construction
    pc,             \* "new", "aborted" (the constructor raised), "ready", "walk", "done",
                    \* "raised" (the generator raised)
    error,          \* the exception that left the constructor or the generator
    counter,        \* enumerate(releases): index of the release being flattened
    to_flatten,     \* the deque of frames
    rows,           \* defaultdict(list) of the release being flattened
    repeat,         \* the one dict object every frame of a release refers to
    yielded,        \* what the generator has yielded so far
    emitted,        \* history of the release being flattened: rows emitted, repeats recorded
    call,           \* the arguments of a call of generate_row_id
    returned        \* what that call returned

vars == <<given, tables, self_tables, selection, lookup_cache, types_cache, path_cache,
          warnings, pc, error, counter, to_flatten, rows, repeat, yielded, emitted,
          call, returned>>

(*************************** Flattener.__init__ ****************************)
\* dict[key] = value for every key of keys
SetAll(cache, keys, value) ==
    [x \in DOMAIN cache \cup keys |-> IF x \in keys THEN value ELSE cache[x]]

\* the keys of an insertion-ordered dict after d[name] = ...
DictAdd(names, name) ==
    IF \E i \in 1..Len(names) : names[i] = name THEN names ELSE Append(names, name)

\* the check of line 71 left out
no_rows_never(table) == FALSE

\* line 71: a table without rows is not cached
no_rows(table) == table.total_rows = 0

\* st: the constructor's working state
\*   tabs (the local `tables` of _init), sel, lookup, types, path, tables, err, log
_init_table_cache(st, name) ==
    LET table == st.tables[name]
        cols == IF st.sel[name].split
                THEN {TableIter(table)[i] : i \in 1..Len(table.columns)}
                ELSE ColIds(table.combined_columns)
    IN  IF no_rows(table) THEN st
        ELSE [st EXCEPT !.tabs = DictAdd(@, name),
                        !.path = SetAll(@, table.path, name),
                        !.types = SetAll(@, DOMAIN table.types, name),
                        !.lookup = SetAll(@, cols, name)]

\* the cascade reaching every other table instead of the child tables
cascade_to_all(table) ==
    SelectSeq(<<"tenders", "tenders_items", "tenders_items_class", "parties">>,
              LAMBDA n : n # table.name)

\* line 143: the tables the split cascades to
cascade_to(table) == table.child_tables

\* lines 143-146: every child table gets TableFlattenConfig(split=True)
RECURSIVE cascade(_, _, _)
cascade(st, children, i) ==
    IF i > Len(children) THEN st
    ELSE LET c_name == children[i]
             st1 == [st EXCEPT !.sel = MapSet(@, c_name,
                                              TableFlattenConfig(TRUE, <<>>, <<>>))]
         IN  cascade(_init_table_cache(st1, c_name), children, i + 1)

\* line 138: only the tables of the selection are kept
selected(sel, name) == name \in DOMAIN sel

\* lines 137-146: the loop over the caller's tables
RECURSIVE _init_loop(_, _, _)
_init_loop(st, order, i) ==
    IF i > Len(order) THEN st
    ELSE LET name == order[i]
         IN  IF ~selected(st.sel, name) THEN _init_loop(st, order, i + 1)
             ELSE LET st1 == _init_table_cache(st, name)
                      st2 == IF st1.sel[name].split
                             THEN cascade(st1, cascade_to(st1.tables[name]), 1)
                             ELSE st1
                  IN  _init_loop(st2, order, i + 1)

\* "/".join of array.split("/") with the last part replaced by f"{key}Count"
count_path(array) ==
    LET parts == str_split(array, "/")
        key == parts[Len(parts)]
    IN  str_join(separator, [parts EXCEPT ![Len(parts)] = key \o S("Count")])
count_title(array) ==
    LET parts == str_split(array, "/")
    IN  parts[Len(parts)] \o S(" count")

\* lines 97-112: a count column for every array of the table
RECURSIVE init_count(_, _, _)
init_count(st, name, arrays) ==
    IF arrays = {} THEN st
    ELSE LET array == CHOOSE a \in arrays : TRUE
             target == MapGet(st.types, array, name)
             added == add_column(st.tables[target], count_path(array),
                                 count_title(array), "integer")
             hit == IF st.tables[name].arrays[array] > 0
                    THEN inc_column(added, count_path(array)) ELSE added
         IN  init_count([st EXCEPT !.tables[target] = hit], name, arrays \ {array})

\* lines 114-117: table.combined_columns[col_id] raises KeyError on a missing id
RECURSIVE init_unnest(_, _, _, _)
init_unnest(st, name, unnest, i) ==
    IF i > Len(unnest) \/ st.err # "" THEN st
    ELSE LET col_id == unnest[i]
             table == st.tables[name]
         IN  IF col_id \notin ColIds(table.combined_columns)
             THEN [st EXCEPT !.err = "KeyError"]
             ELSE init_unnest(
                     [st EXCEPT !.tables[name].columns =
                                    ColSet(@, col_id, ColGet(table.combined_columns, col_id))],
                     name, unnest, i + 1)

\* lines 129-132: self.tables.get(c_name) is None for a table that is not retained
RECURSIVE repeat_children(_, _, _, _, _)
repeat_children(st, children, i, col, title) ==
    IF i > Len(children) \/ st.err # "" THEN st
    ELSE LET c_name == children[i]
         IN  IF \A j \in 1..Len(st.tabs) : st.tabs[j] # c_name
             THEN [st EXCEPT !.err = "AttributeError"]
             ELSE repeat_children(
                     [st EXCEPT !.tables[c_name].columns = ColSet(@, col.id, col),
                                !.tables[c_name].titles = MapSet(@, col.id, title)],
                     children, i + 1, col, title)

NoTitle == S("<None>")

\* lines 119-132
RECURSIVE init_repeat(_, _, _, _)
init_repeat(st, name, rep, i) ==
    IF i > Len(rep) \/ st.err # "" THEN st
    ELSE LET col_id == rep[i]
             table == st.tables[name]
             columns == IF st.sel[name].split THEN table.columns
                        ELSE table.combined_columns
             title == MapGet(table.titles, col_id, NoTitle)
         IN  IF col_id \notin ColIds(columns)
             THEN init_repeat([st EXCEPT !.log = Append(@, <<col_id, name>>)],
                              name, rep, i + 1)
             ELSE init_repeat(
                     repeat_children(st, table.child_tables, 1,
                                     ColGet(columns, col_id), title),
                     name, rep, i + 1)

\* lines 88-132: the loop over the retained tables
RECURSIVE _init_options(_, _, _)
_init_options(st, count, i) ==
    IF i > Len(st.tabs) \/ st.err # "" THEN st
    ELSE LET name == st.tabs[i]
             options == st.sel[name]
             st1 == IF count
                    THEN init_count(st, name, DOMAIN st.tables[name].arrays) ELSE st
             st2 == init_unnest(st1, name, options.unnest, 1)
             st3 == init_repeat(st2, name, options.repeat, 1)
         IN  _init_options(st3, count, i + 1)

\* Flattener._init
_init(sel, tbls, order, count) ==
    LET st0 == [tabs |-> <<>>, sel |-> sel, lookup |-> EmptyMap, types |-> EmptyMap,
                path |-> EmptyMap, tables |-> tbls, err |-> "", log |-> <<>>]
    IN  _init_options(_init_loop(st0, order, 1), count, 1)

(*************************** get_pointer ***********************************)
\* common_prefix: the longest common run of leading path segments
RECURSIVE common_segments(_, _)
common_segments(s1, s2) ==
    IF Len(s1) = 0 \/ Len(s2) = 0 \/ s1[1] # s2[1] THEN <<>>
    ELSE <<s1[1]>> \o common_segments(Tail(s1), Tail(s2))
common_prefix(path, subpath) ==
    str_join(separator, common_segments(str_split(path, "/"), str_split(subpath, "/")))

\* Table.is_array: the deepest array of the table the path lies in; Empty for False
is_array(table, path) ==
    LET inside == {a \in DOMAIN table.arrays : common_prefix(a, path) = a}
    IN  IF inside = {} THEN Empty
        ELSE CHOOSE a \in inside : \A b \in inside : Len(b) <= Len(a)

isdigit(pth) == Len(pth) > 0 /\ \A i \in 1..Len(pth) : \E d \in 1..Len(Digits) : pth[i] = Digits[d]

\* lines 324-331: <<prefix, index>> when the loop over enumerate(paths, 1) ends
RECURSIVE pointer_loop(_, _, _, _)
pointer_loop(paths, array, index, prefix) ==
    IF index > Len(paths) THEN <<prefix, Len(paths)>>
    ELSE LET pth == paths[index]
         IN  IF isdigit(pth) \/ pth = Empty
             THEN pointer_loop(paths, array, index + 1, prefix)
             ELSE LET longer == str_join(separator, <<prefix, pth>>)
                  IN  IF longer = array THEN <<longer, index>>
                      ELSE pointer_loop(paths, array, index + 1, longer)

get_pointer(table, abs_path, path, should_split, index) ==
    LET array == is_array(table, path)
    IN  IF index # Empty /\ array # Empty THEN str_join(separator, <<abs_path, index>>)
        ELSE IF table.is_root THEN abs_path
        ELSE IF array # Empty
        THEN LET paths == str_split(abs_path, "/")
                 ended == pointer_loop(paths, array, 1, Empty)
                 pointer == str_join(separator, SubSeq(paths, ended[2] + 1, Len(paths)))
             IN  IF pointer # Empty THEN str_join(separator, <<ended[1], pointer>>)
                 ELSE ended[1]
        ELSE path

\* `def get_pointer(table, abs_path, path, split, *, separator, index)` accepts
\* four positional arguments
GetPointerPositional == 4

\* a call get_pointer(*args): the TypeError of too many positional arguments,
\* or the pointer returned
call_get_pointer(args) ==
    IF Len(args) > GetPointerPositional
    THEN [raised |-> "TypeError", value |-> Empty]
    ELSE [raised |-> "", value |-> get_pointer(args[1], args[2], args[3], args[4], Empty)]

(*************************** Flattener.flatten *****************************)
Frame(abs_path, path, parent_key, parent, record) ==
    [abs_path |-> abs_path, path |-> path, parent_key |-> parent_key,
     parent |-> parent, record |-> record]

K_rowID == S("rowID")
K_id == S("id")
K_parentID == S("parentID")
K_ocid == S("ocid")

\* the release being flattened
release == given.releases[counter + 1]

\* rows[name][-1][key] = value; IndexError when rows[name] is empty
\* w: the working state of one pass of the while loop: stack, rows, repeat, log, err
write_last(w, name, key, value) ==
    LET list == MapGet(w.rows, name, <<>>)
    IN  IF Len(list) = 0
        THEN [w EXCEPT !.rows = MapSet(@, name, <<>>), !.err = "IndexError"]
        ELSE [w EXCEPT !.rows = MapSet(@, name,
                  [list EXCEPT ![Len(list)] = MapSet(@, key, value)])]

\* the elements run together without the delimiter
joined_plain(item) == str_join(Empty, [i \in 1..Len(item.kids) |-> item.kids[i].s])

\* JOINABLE.join(item): TypeError unless every element is a string
all_str(item) == \A i \in 1..Len(item.kids) : item.kids[i].t = "str"
joined(item) == str_join(S(JOINABLE), [i \in 1..Len(item.kids) |-> item.kids[i].s])

\* lines 212-224: a frame for every object of the array, in index order
RECURSIVE push_elements(_, _, _, _, _)
push_elements(stack, f, key, item, index) ==
    IF index >= Len(item.kids) THEN stack
    ELSE LET value == item.kids[index + 1]
             pointer == str_join(separator, <<f.path, key>>)
             abs_pointer == str_join(separator, <<f.abs_path, key, str(index)>>)
         IN  push_elements(
                 IF value.t = "dict"
                 THEN Append(stack, Frame(abs_pointer, pointer, key, f.record, value))
                 ELSE stack,
                 f, key, item, index + 1)

\* the history of the walk: a scalar field of table `name` met at node `node`
met(w, name, node, pointer) ==
    [w EXCEPT !.log = Append(@, [kind |-> "scalar", table |-> name, node |-> node,
                                 pointer |-> pointer, merged |-> {}])]

\* lines 198, 211, 230, 233: rows[name][-1][key] = item, and the history of it
assign(w, name, node, key, item) ==
    LET w1 == write_last(w, name, key, item)
    IN  IF w1.err # "" THEN w1
        ELSE [w1 EXCEPT !.log = Append(@, [kind |-> "write", table |-> name,
                                           node |-> node, pointer |-> key,
                                           merged |-> {}])]

\* lines 180-233: the body of `for key, item in record.items()` for field i of frame f
scan_field(w, f, i) ==
    LET key == f.record.keys[i]
        item == f.record.kids[i]
        pointer == str_join(separator, <<f.path, key>>)
        name == MapGet(lookup_cache, pointer, MapGet(types_cache, pointer, NoTable))
        table == tables[name]
        item_type == MapGet(table.types, pointer, "")
        abs_pointer == str_join(separator, <<f.abs_path, key>>)
        options == selection[name]
        isrep == \E r \in 1..Len(options.repeat) : options.repeat[r] = pointer
        w1 == IF isrep
              THEN [w EXCEPT !.repeat = MapSet(@, pointer, item),
                             !.log = Append(@, [kind |-> "repeat", table |-> name,
                                                node |-> f.abs_path, pointer |-> pointer,
                                                merged |-> {}])]
              ELSE w
        called == call_get_pointer(<<pointer, f.abs_path, key, options.split,
                                     separator, table.is_root>>)
        root == get_root(tables, name)
        w2 == met(w1, name, abs_pointer, pointer)
    IN  IF name = NoTable THEN w
        ELSE IF item.t = "dict"
        THEN [w1 EXCEPT !.stack = Append(@, Frame(abs_pointer, pointer, key, f.record, item))]
        ELSE IF item.t = "list"
        THEN IF item_type = JOINABLE
             THEN IF all_str(item)
                  THEN assign(w1, name, abs_pointer, pointer, VStr(joined(item)))
                  ELSE [w1 EXCEPT !.err = "TypeError"]
             ELSE IF given.count /\ called.raised # ""
             THEN [w1 EXCEPT !.err = called.raised]
             ELSE LET counted ==
                        IF given.count /\ TableContains(table, called.value \o S("Count"))
                        THEN assign(w1, name, abs_pointer, called.value \o S("Count"),
                                    VInt(Len(item.kids)))
                        ELSE w1
                  IN  IF counted.err # "" THEN counted
                      ELSE [counted EXCEPT !.stack = push_elements(@, f, key, item, 0)]
        ELSE IF ~table.is_root /\ root \notin DOMAIN selection
        THEN [w2 EXCEPT !.err = "KeyError"]
        ELSE IF ~table.is_root
                /\ \E u \in 1..Len(selection[root].unnest) :
                       selection[root].unnest[u] = abs_pointer
        THEN assign(w2, root, abs_pointer, abs_pointer, item)
        ELSE IF called.raised # "" THEN [w2 EXCEPT !.err = called.raised]
        ELSE assign(w2, name, abs_pointer, called.value, item)

RECURSIVE scan_fields(_, _, _)
scan_fields(w, f, i) ==
    IF i > Len(f.record.keys) \/ w.err # "" THEN w
    ELSE scan_fields(scan_field(w, f, i), f, i + 1)

\* lines 166-178: the row of a frame whose path is the path of a table
new_row(f) ==
    (K_rowID :> VStr(generate_row_id(Get(release, K_ocid, VNone), Get(f.record, K_id, VStr(Empty)),
                                     f.parent_key, Get(release, K_id, VNone))))
    @@ (K_id :> Get(release, K_id, VNone))
    @@ (K_parentID :> Get(f.parent, K_id, VNone))
    @@ (K_ocid :> Get(release, K_ocid, VNone))

\* new_row.update(repeat)
update(row, more) == [k \in DOMAIN row \cup DOMAIN more |-> IF k \in DOMAIN more THEN more[k] ELSE row[k]]

\* a FIFO in place of the LIFO: to_flatten.popleft()
popleft(stack) == [frame |-> stack[1], rest |-> Tail(stack)]

\* line 165: to_flatten.pop() takes the frame pushed last
pop(stack) == [frame |-> stack[Len(stack)], rest |-> SubSeq(stack, 1, Len(stack) - 1)]

\* the table looked up among the columns instead of the table paths
row_table_by_column(f) == MapGet(lookup_cache, f.path, NoTable)

\* line 166: the table whose path is the path of the frame, if any
row_table(f) == MapGet(path_cache, f.path, NoTable)

\* lines 165-233: one pass of `while to_flatten`
pass(stack, rws, rep) ==
    LET f == pop(stack).frame
        name == row_table(f)
        w0 == [stack |-> pop(stack).rest, rows |-> rws, repeat |-> rep,
               log |-> <<>>, err |-> ""]
        w1 == IF name = NoTable THEN w0
              ELSE [w0 EXCEPT
                      !.rows = MapSet(@, name,
                                  Append(MapGet(rws, name, <<>>), update(new_row(f), rep))),
                      !.log = <<[kind |-> "row", table |-> name, node |-> f.abs_path,
                                 pointer |-> f.path, merged |-> DOMAIN rep]>>]
    IN  scan_fields(w1, f, 1)

(*************************** actions ***************************************)
\* Flattener(options, tables)
Construct ==
    /\ pc = "new"
    /\ LET st == _init(selection, tables, given.order, given.count)
       IN  /\ tables' = st.tables
           /\ selection' = st.sel
           /\ self_tables' = st.tabs
           /\ lookup_cache' = st.lookup
           /\ types_cache' = st.types
           /\ path_cache' = st.path
           /\ warnings' = st.log
           /\ error' = st.err
           /\ pc' = IF st.err = "" THEN "ready" ELSE "aborted"
    /\ UNCHANGED <<given, counter, to_flatten, rows, repeat, yielded, emitted, call, returned>>

\* lines 157-162: the generator takes the next release
StartRelease ==
    /\ pc = "ready"
    /\ counter < Len(given.releases)
    /\ IF HasKey(release, K_ocid) /\ HasKey(release, K_id)
       THEN /\ pc' = "walk"
            /\ to_flatten' = <<Frame(Empty, Empty, Empty, EmptyDict, release)>>
            /\ UNCHANGED error
       ELSE /\ pc' = "raised"
            /\ error' = "KeyError"
            /\ to_flatten' = <<Frame(Empty, Empty, Empty, EmptyDict, release)>>
    /\ rows' = EmptyMap
    /\ repeat' = EmptyMap
    /\ emitted' = <<>>
    /\ UNCHANGED <<given, tables, self_tables, selection, lookup_cache, types_cache,
                   path_cache, warnings, counter, yielded, call, returned>>

\* lines 164-233: one frame is popped and its fields are scanned
PopFrame ==
    /\ pc = "walk"
    /\ to_flatten # <<>>
    /\ LET w == pass(to_flatten, rows, repeat)
       IN  /\ to_flatten' = w.stack
           /\ rows' = w.rows
           /\ repeat' = w.repeat
           /\ emitted' = emitted \o w.log
           /\ error' = w.err
           /\ pc' = IF w.err = "" THEN "walk" ELSE "raised"
    /\ UNCHANGED <<given, tables, self_tables, selection, lookup_cache, types_cache,
                   path_cache, warnings, counter, yielded, call, returned>>

\* line 234: yield counter, rows
Yield ==
    /\ pc = "walk"
    /\ to_flatten = <<>>
    /\ yielded' = Append(yielded, [counter |-> counter, rows |-> rows, log |-> emitted])
    /\ counter' = counter + 1
    /\ pc' = "ready"
    /\ UNCHANGED <<given, tables, self_tables, selection, lookup_cache, types_cache,
                   path_cache, warnings, error, to_flatten, rows, repeat, emitted,
                   call, returned>>

\* line 157: the releases are exhausted and the generator returns
Exhausted ==
    /\ pc = "ready"
    /\ counter = Len(given.releases)
    /\ pc' = "done"
    /\ UNCHANGED <<given, tables, self_tables, selection, lookup_cache, types_cache,
                   path_cache, warnings, error, counter, to_flatten, rows, repeat,
                   yielded, emitted, call, returned>>

Next == Construct \/ StartRelease \/ PopFrame \/ Yield \/ Exhausted

(*************************** inputs ****************************************)
MaxReleases == 2

Obj1(k1, v1) == VObj(<<S(k1)>>, <<v1>>)
Obj2(k1, v1, k2, v2) == VObj(<<S(k1), S(k2)>>, <<v1, v2>>)
Obj3(k1, v1, k2, v2, k3, v3) == VObj(<<S(k1), S(k2), S(k3)>>, <<v1, v2, v3>>)
Obj4(k1, v1, k2, v2, k3, v3, k4, v4) ==
    VObj(<<S(k1), S(k2), S(k3), S(k4)>>, <<v1, v2, v3, v4>>)
Id(a) == Obj1("id", VStr(S(a)))

\* {ocid: X, id: 1, tender: {id: T1, items: [{id: i1}, {id: i2}]}}
R_tender ==
    Obj3("ocid", VStr(S("X")), "id", VStr(S("1")),
         "tender", Obj2("id", VStr(S("T1")), "items", VList(<<Id("i1"), Id("i2")>>)))

\* two sibling branches, the first three levels deep
R_siblings ==
    Obj4("ocid", VStr(S("Y")), "id", VStr(S("2")),
         "tender", Obj2("id", VStr(S("T2")),
                        "items", VList(<<Obj2("id", VStr(S("i3")),
                                              "additionalClassifications",
                                              VList(<<Id("c1")>>))>>)),
         "parties", VList(<<Id("p1"), Id("p2")>>))

\* a tender with an array of scalars and no id, declared after the parties; no id
\* of the release
R_tags(tags) ==
    Obj4("ocid", VStr(S("Z")), "id", VStr(Empty),
         "parties", VList(<<Id("p3")>>),
         "tender", Obj2("tags", tags, "items", VList(<<Id("i4"), VObj(<<>>, <<>>)>>)))

\* a release without its ocid
R_no_ocid == Obj2("id", VStr(S("4")), "tender", Id("T4"))

Releases == {R_tender, R_siblings, R_tags(VList(<<VStr(S("a")), VStr(S("b"))>>)), R_no_ocid}

ReleaseLists == UNION {[1..n -> Releases] : n \in 0..MaxReleases}

Split(b) == TableFlattenConfig(b, <<>>, <<>>)

\* every choice of tables among tenders, tenders_items and parties; tenders and
\* tenders_items, which have child tables, each split or not
SplitSelections ==
    {sel \in UNION {[names -> {Split(TRUE), Split(FALSE)}] :
                       names \in SUBSET {"tenders", "tenders_items", "parties"}} :
        "parties" \in DOMAIN sel => ~sel["parties"].split}

\* selections with a repeat or an unnest directive on the tenders table
DirectiveSelections ==
    {("tenders" :> TableFlattenConfig(TRUE, <<P_tender_tags>>, <<>>)),
     ("tenders" :> TableFlattenConfig(TRUE, <<P_tender_tags>>, <<>>))
        @@ ("parties" :> Split(FALSE)),
     ("tenders" :> TableFlattenConfig(TRUE, <<P_missing>>, <<>>)),
     ("tenders" :> TableFlattenConfig(FALSE, <<P_tender_tags>>, <<>>)),
     ("tenders" :> TableFlattenConfig(TRUE, <<>>, <<P_items_1_id>>)),
     ("tenders" :> TableFlattenConfig(TRUE, <<>>, <<P_items_0_id>>)),
     ("tenders" :> TableFlattenConfig(TRUE, <<>>, <<P_missing>>))}

Selections == SplitSelections \cup DirectiveSelections

\* the insertion orders of the caller's tables mapping
Orders == {<<"tenders", "tenders_items", "tenders_items_class", "parties">>,
           <<"parties", "tenders_items_class", "tenders_items", "tenders">>}

ZeroRows == {NoTable, "tenders", "tenders_items"}

NoCall == [ocid |-> Empty, item_id |-> Empty, parent_key |-> Empty, top_level_id |-> Empty]

InitWith(sels, zeros, lists) ==
    /\ call = NoCall
    /\ returned = Empty
    /\ \E sel \in sels, order \in Orders, count \in BOOLEAN, zero \in zeros,
          scalars \in BOOLEAN, releases \in lists :
          /\ given = [selection |-> sel, order |-> order, count |-> count,
                      releases |-> releases, zero |-> zero, scalars |-> scalars]
          /\ tables = Tables(zero, scalars)
          /\ selection = sel
          /\ self_tables = order
    /\ lookup_cache = EmptyMap
    /\ types_cache = EmptyMap
    /\ path_cache = EmptyMap
    /\ warnings = <<>>
    /\ pc = "new"
    /\ error = ""
    /\ counter = 0
    /\ to_flatten = <<>>
    /\ rows = EmptyMap
    /\ repeat = EmptyMap
    /\ yielded = <<>>
    /\ emitted = <<>>

Init == InitWith(Selections, ZeroRows, ReleaseLists)

Spec == Init /\ [][Next]_vars

(*************************** generate_row_id alone *************************)
InitRowId ==
    /\ \E o \in {Empty, S("ocid1")}, i \in {Empty, S("item"), S("1")},
          k \in {Empty, S("documents"), S("item")}, t \in {Empty, S("top"), S("1")} :
          call = [ocid |-> o, item_id |-> i, parent_key |-> k, top_level_id |-> t]
    /\ returned = Empty
    /\ given = [selection |-> EmptyMap, order |-> <<>>, count |-> FALSE,
                releases |-> <<>>, zero |-> NoTable, scalars |-> FALSE]
    /\ tables = EmptyMap
    /\ selection = EmptyMap
    /\ self_tables = <<>>
    /\ lookup_cache = EmptyMap
    /\ types_cache = EmptyMap
    /\ path_cache = EmptyMap
    /\ warnings = <<>>
    /\ pc = "call"
    /\ error = ""
    /\ counter = 0
    /\ to_flatten = <<>>
    /\ rows = EmptyMap
    /\ repeat = EmptyMap
    /\ yielded = <<>>
    /\ emitted = <<>>

\* generate_row_id(ocid, item_id, parent_key, top_level_id) with strings
CallRowId ==
    /\ pc = "call"
    /\ returned' = generate_row_id(VStr(call.ocid), VStr(call.item_id), call.parent_key,
                                   VStr(call.top_level_id))
    /\ pc' = "returned"
    /\ UNCHANGED <<given, tables, self_tables, selection, lookup_cache, types_cache,
                   path_cache, warnings, error, counter, to_flatten, rows, repeat,
                   yielded, emitted, call>>

SpecRowId == InitRowId /\ [][CallRowId]_vars

(*************************** joinable arrays alone *************************)
MaxTags == 3

\* the scalars of an array: strings without the delimiter, the empty string among them
TagStrings == {Empty, S("a"), <<"b", "a">>}
TagLists == UNION {[1..n -> {VStr(x) : x \in TagStrings}] : n \in 0..MaxTags}

InitJoin ==
    InitWith({("tenders" :> Split(TRUE))}, {NoTable},
             {<<R_tags(VList(tags))>> : tags \in TagLists})

SpecJoin == InitJoin /\ [][Next]_vars

(*************************** reading the releases **************************)
segments(pointer) == str_split(pointer, "/")

\* the value at the path segs[i..] below v: a key of a dict, an index of a list
RECURSIVE node_at(_, _, _)
node_at(v, segs, i) ==
    IF i > Len(segs) THEN v
    ELSE IF v.t = "dict" /\ HasKey(v, segs[i]) THEN node_at(Get(v, segs[i], VNone), segs, i + 1)
    ELSE IF v.t = "list" /\ \E d \in 1..Len(v.kids) : str(d - 1) = segs[i]
    THEN node_at(v.kids[CHOOSE d \in 1..Len(v.kids) : str(d - 1) = segs[i]], segs, i + 1)
    ELSE VNone

NodeAt(rel, pointer) == node_at(rel, segments(pointer), 2)

\* segs is a leading run of the segments of pointer
Within(pointer, ancestor) ==
    LET p == segments(pointer)
        a == segments(ancestor)
    IN  ancestor = Empty \/ (Len(a) <= Len(p) /\ SubSeq(p, 1, Len(a)) = a)

Over == pc \in {"done", "raised"}
WellFormed == \A k \in 1..Len(given.releases) :
                  HasKey(given.releases[k], K_ocid) /\ HasKey(given.releases[k], K_id)
RowEvents(log) == {i \in 1..Len(log) : log[i].kind = "row"}

(*************************** C1 ********************************************)
C1_selection == ("tenders" :> Split(TRUE)) @@ ("tenders_items" :> Split(TRUE))

\* C1: flattening the one release {ocid: X, id: 1, tender: {id: T1, items: [{id: i1},
\* {id: i2}]}} with tenders and tenders_items selected, both split, yields one
\* tenders row whose rowID is "X/1/T1" and two tenders_items rows with parentID "T1".
C1_EndToEnd ==
    (/\ given.selection = C1_selection
     /\ given.releases = <<R_tender>>
     /\ given.zero = NoTable
     /\ pc \in {"aborted", "done", "raised"})
    => /\ Len(yielded) = 1
       /\ DOMAIN yielded[1].rows = {"tenders", "tenders_items"}
       /\ Len(yielded[1].rows["tenders"]) = 1
       /\ yielded[1].rows["tenders"][1][K_rowID] = VStr(<<"X", "/", "1", "/", "T1">>)
       /\ Len(yielded[1].rows["tenders_items"]) = 2
       /\ \A i \in 1..2 : yielded[1].rows["tenders_items"][i][K_parentID] = VStr(S("T1"))

(*************************** C2 ********************************************)
Retained == {self_tables[i] : i \in 1..Len(self_tables)}
KeyPos(obj, key) == CHOOSE i \in 1..Len(obj.keys) : obj.keys[i] = key

\* the pairs of rows, the first emitted before the second, that lie below two
\* different fields of one object of the release
SiblingPairs(log, rel) ==
    {pair \in RowEvents(log) \X RowEvents(log) :
        /\ pair[1] < pair[2]
        /\ LET a == segments(log[pair[1]].node)
               b == segments(log[pair[2]].node)
               c == Len(common_segments(a, b))
           IN  /\ Len(a) > c
               /\ Len(b) > c
               /\ node_at(rel, SubSeq(a, 1, c), 2).t = "dict"}

\* of two rows below different fields of one object, the one emitted first lies
\* below the field declared later
SiblingOrder(log, rel) ==
    \A pair \in SiblingPairs(log, rel) :
        LET a == segments(log[pair[1]].node)
            b == segments(log[pair[2]].node)
            c == Len(common_segments(a, b))
            node == node_at(rel, SubSeq(a, 1, c), 2)
        IN  KeyPos(node, a[c + 1]) > KeyPos(node, b[c + 1])

\* C2: for two object-valued or array-of-object fields declared in order a, b in
\* one node, both resolving to selected tables, every row of b's subtree is emitted
\* before any row of a's subtree.
C2_SiblingOrder ==
    /\ pc \in {"walk", "raised"} => SiblingOrder(emitted, release)
    /\ \A k \in 1..Len(yielded) : SiblingOrder(yielded[k].log, given.releases[k])

\* a release was flattened whose two sibling branches both gave rows, one of them
\* down to the third level
C2_Witness ==
    \E k \in 1..Len(yielded) :
        /\ SiblingPairs(yielded[k].log, given.releases[k]) # {}
        /\ \E i \in RowEvents(yielded[k].log) :
               yielded[k].log[i].table = "tenders_items_class"

(*************************** C3 ********************************************)
RowCount(rws) ==
    LET names == DOMAIN rws
        RECURSIVE sum(_)
        sum(ns) == IF ns = {} THEN 0
                   ELSE LET x == CHOOSE y \in ns : TRUE IN Len(rws[x]) + sum(ns \ {x})
    IN  sum(names)

\* C3: for n releases flatten yields exactly n entries in input order, the k-th
\* with sequence number k-1 and only rows built from the k-th release.
C3_OnePerRelease ==
    (Over /\ WellFormed)
    => /\ Len(yielded) = Len(given.releases)
       /\ \A k \in 1..Len(yielded) :
             /\ yielded[k].counter = k - 1
             /\ RowCount(yielded[k].rows) = Cardinality(RowEvents(yielded[k].log))
             /\ \A name \in DOMAIN yielded[k].rows :
                    \A i \in 1..Len(yielded[k].rows[name]) :
                        yielded[k].rows[name][i][K_ocid] = Get(given.releases[k], K_ocid, VNone)

GivenNames == DOMAIN given.selection

RECURSIVE Descendants(_)
Descendants(name) ==
    LET children == {tables[name].child_tables[i] : i \in 1..Len(tables[name].child_tables)}
    IN  children \cup UNION {Descendants(c) : c \in children}

\* the tables below a table the caller selected with split=true
SplitDescendants ==
    UNION {Descendants(name) : name \in {n \in GivenNames : given.selection[n].split}}

\* C5 as stated: after construction no table outside the caller's selection is
\* retained and no yielded mapping has rows under a table outside it.
C5_OnlySelected ==
    pc \notin {"new", "call", "returned"}
    => /\ Retained \subseteq GivenNames
       /\ \A k \in 1..Len(yielded) : DOMAIN yielded[k].rows \subseteq GivenNames

\* C5 amended: a table is retained only if the caller selected it or it lies below
\* a table the caller selected with split=true, and rows are yielded only under
\* retained tables.
C5_SelectedOrCascaded ==
    pc \notin {"new", "call", "returned"}
    => /\ Retained \subseteq (GivenNames \cup SplitDescendants)
       /\ \A k \in 1..Len(yielded) : DOMAIN yielded[k].rows \subseteq Retained

\* a release with parties was flattened while parties was not selected, and rows
\* came out under a table the caller did not select
C5_Witness ==
    /\ "parties" \notin GivenNames
    /\ \E k \in 1..Len(yielded) :
          /\ NodeAt(given.releases[k], P_parties).t = "list"
          /\ \E name \in DOMAIN yielded[k].rows : name \notin GivenNames

(*************************** C6 ********************************************)
Range(cache) == {cache[x] : x \in DOMAIN cache}

\* C6: a selected table whose total_rows is 0 is in none of the caches and not in
\* Flattener.tables, and no yielded mapping has a row under its name.
C6_NoRowsNotRetained ==
    pc \notin {"new", "call", "returned"}
    => \A name \in DOMAIN selection :
          tables[name].total_rows = 0
          => /\ name \notin Retained
             /\ name \notin Range(path_cache) \cup Range(types_cache) \cup Range(lookup_cache)
             /\ \A k \in 1..Len(yielded) : name \notin DOMAIN yielded[k].rows

\* the caller selected a table analysed with no rows, and a release holding
\* objects at that table's path was flattened into rows of other tables
C6_Witness ==
    /\ given.zero \in GivenNames
    /\ \E k \in 1..Len(yielded) :
          /\ \E path \in tables[given.zero].path :
                 NodeAt(given.releases[k], path).t \in {"dict", "list"}
          /\ DOMAIN yielded[k].rows # {}

(*************************** C7 ********************************************)
LastRepeat(log, j, pointer) ==
    CHOOSE i \in 1..(j - 1) :
        /\ log[i].kind = "repeat" /\ log[i].pointer = pointer
        /\ \A h \in (i + 1)..(j - 1) : ~(log[h].kind = "repeat" /\ log[h].pointer = pointer)

RepeatPerBranch(log) ==
    \A j \in RowEvents(log) :
        \A pointer \in log[j].merged :
            Within(log[j].node, log[LastRepeat(log, j, pointer)].node)

\* C7: a value recorded for a repeat pointer while scanning a node is merged onto
\* the rows emitted afterwards for descendants of that node and onto no row of a
\* node outside that node's subtree.
C7_RepeatPerBranch ==
    /\ pc \in {"walk", "raised"} => RepeatPerBranch(emitted)
    /\ \A k \in 1..Len(yielded) : RepeatPerBranch(yielded[k].log)

(*************************** C8 ********************************************)
\* C8: the constructor never aborts because of a repeat or unnest directive; a
\* directive naming an absent column or a child table that is not retained is
\* skipped with a warning and changes no table's columns or titles.
C8_NeverAborts ==
    /\ pc # "aborted"
    /\ (warnings # <<>> /\ ~given.count) => tables = Tables(given.zero, given.scalars)

(*************************** C9 ********************************************)
NonEmpty(parts) == SelectSeq(parts, LAMBDA x : x # Empty)

\* the segments joined, the empty ones left out
Composed(c) ==
    str_join(separator,
             NonEmpty(<<c.ocid, c.top_level_id,
                        str_join(S(":"), NonEmpty(<<c.parent_key, c.item_id>>))>>))

\* C9: generate_row_id returns ocid, top_level_id and the tail parent_key:item_id
\* joined by '/', every empty segment left out, with no trailing '/' and no
\* dangling ':'; ("ocid1","item","documents","top") gives "ocid1/top/documents:item"
\* and ("ocid1","item","","1") gives "ocid1/1/item".
C9_RowId ==
    pc = "returned"
    => /\ returned = Composed(call)
       /\ call = [ocid |-> S("ocid1"), item_id |-> S("item"), parent_key |-> S("documents"),
                  top_level_id |-> S("top")]
          => returned = <<"ocid1", "/", "top", "/", "documents", ":", "item">>
       /\ call = [ocid |-> S("ocid1"), item_id |-> S("item"), parent_key |-> Empty,
                  top_level_id |-> S("1")]
          => returned = <<"ocid1", "/", "1", "/", "item">>

(*************************** C10 *******************************************)
TagsWritten(rws) ==
    /\ "tenders" \in DOMAIN rws
    /\ Len(rws["tenders"]) > 0
    /\ P_tender_tags \in DOMAIN rws["tenders"][Len(rws["tenders"])]

\* the value written for /tender/tags, split on the delimiter, is the list of rel
RoundTrip(rws, rel) ==
    LET tags == NodeAt(rel, P_tender_tags)
        value == rws["tenders"][Len(rws["tenders"])][P_tender_tags]
    IN  str_split(value.s, JOINABLE) = [i \in 1..Len(tags.kids) |-> tags.kids[i].s]

HasTags(rel) == Len(NodeAt(rel, P_tender_tags).kids) > 0

\* C10 as stated: for every list of strings without the delimiter, the empty list
\* included, the joined value flatten writes splits back into the list.
C10_RoundTrip ==
    /\ (pc \in {"walk", "raised"} /\ TagsWritten(rows)) => RoundTrip(rows, release)
    /\ \A k \in 1..Len(yielded) :
          TagsWritten(yielded[k].rows) => RoundTrip(yielded[k].rows, given.releases[k])

\* C10 amended: the same for every list with at least one element.
C10_RoundTripNonEmpty ==
    /\ (pc \in {"walk", "raised"} /\ TagsWritten(rows) /\ HasTags(release))
       => RoundTrip(rows, release)
    /\ \A k \in 1..Len(yielded) :
          (TagsWritten(yielded[k].rows) /\ HasTags(given.releases[k]))
          => RoundTrip(yielded[k].rows, given.releases[k])

\* a list of three strings, an empty one among them, was joined and yielded
C10_Witness ==
    \E k \in 1..Len(yielded) :
        LET tags == NodeAt(given.releases[k], P_tender_tags)
        IN  /\ TagsWritten(yielded[k].rows)
            /\ Len(tags.kids) = 3
            /\ \E i \in 1..3 : tags.kids[i].s = Empty

(*************************** C12 *******************************************)
Constructed == pc \in {"ready", "walk", "done", "raised"}

\* the table is in Flattener.tables and its paths are in the path cache
Registered(name) ==
    /\ name \in Retained
    /\ \A p \in tables[name].path : MapGet(path_cache, p, NoTable) = name

\* C12: after construction, for every table selected with split=true, every
\* transitive descendant the caller did not configure has a selection entry with
\* split=true and, if it has rows, is registered in the caches, whatever the order
\* of the tables in the model mapping.
C12_CascadeAll ==
    Constructed
    => \A n \in GivenNames :
          given.selection[n].split
          => \A d \in Descendants(n) \ GivenNames :
                /\ d \in DOMAIN selection
                /\ selection[d].split
                /\ tables[d].total_rows > 0 => Registered(d)

(*************************** C13 *******************************************)
\* C13: a child table the caller configured explicitly has exactly the same
\* configuration after construction, also when its parent is split=true.
C13_ExplicitKept ==
    Constructed
    => \A n \in GivenNames :
          tables[n].parent # NoTable => selection[n] = given.selection[n]

(*************************** C14 *******************************************)
\* the scalar field met at position j is to be unnested: its table is not a root
\* table and its absolute pointer is in the unnest list of the root table
Unnested(log, j) ==
    LET root == get_root(tables, log[j].table)
    IN  /\ ~tables[log[j].table].is_root
        /\ root \in DOMAIN selection
        /\ \E u \in 1..Len(selection[root].unnest) : selection[root].unnest[u] = log[j].node

\* every scalar field met is followed at once by its one write: onto the row of
\* the root table under the absolute pointer if it is unnested, onto the row of
\* its own table otherwise
ScalarPlacement(log) ==
    \A j \in 1..Len(log) :
        log[j].kind = "scalar"
        => /\ j < Len(log)
           /\ log[j + 1].kind = "write"
           /\ log[j + 1].node = log[j].node
           /\ IF Unnested(log, j)
              THEN /\ log[j + 1].table = get_root(tables, log[j].table)
                   /\ log[j + 1].pointer = log[j].node
              ELSE log[j + 1].table = log[j].table

\* C14: a scalar field of a non-root table whose absolute pointer is in the unnest
\* list of the root table is written under that pointer onto the latest row of the
\* root table and not onto its own table's row; every other scalar field is written
\* onto the current row of its own table only.
C14_UnnestPlacement ==
    /\ pc \in {"walk", "raised"} => ScalarPlacement(emitted)
    /\ \A k \in 1..Len(yielded) : ScalarPlacement(yielded[k].log)

(*************************** C16 *******************************************)
\* every write in the history comes after a row of the table it is written to
RowBeforeWrite(log) ==
    \A j \in 1..Len(log) :
        log[j].kind = "write"
        => \E i \in 1..(j - 1) : log[i].kind = "row" /\ log[i].table = log[j].table

\* C16: whenever flatten writes onto the latest row of a table (a joined array, a
\* count, a scalar, an unnested scalar onto the root table), a row of that table
\* has been emitted for the release being flattened: the list indexed with [-1] is
\* never empty, and the root table looked up for unnest is a selected table.
C16_RowPresent ==
    /\ error # "IndexError"
    /\ (pc = "raised" /\ error = "KeyError")
       => ~(HasKey(release, K_ocid) /\ HasKey(release, K_id))
    /\ pc \in {"walk", "raised"} => RowBeforeWrite(emitted)
    /\ \A k \in 1..Len(yielded) : RowBeforeWrite(yielded[k].log)

\* a release was flattened in which a joined array was written onto the tenders row
\* and a scalar of tenders_items was unnested onto it
C16_Witness ==
    \E k \in 1..Len(yielded) :
        LET log == yielded[k].log
        IN  /\ \E j \in 1..Len(log) :
                   log[j].kind = "write" /\ log[j].pointer = P_tender_tags
            /\ \E j \in 1..Len(log) :
                   /\ log[j].kind = "scalar" /\ log[j].table = "tenders_items"
                   /\ log[j + 1].kind = "write" /\ log[j + 1].table = "tenders"

(*************************** recalculate_headers ***************************)
\* str.replace(old, new): every occurrence, left to right
RECURSIVE str_replace(_, _, _)
str_replace(string, old, new) ==
    IF Len(old) = 0 \/ Len(string) < Len(old) THEN string
    ELSE IF SubSeq(string, 1, Len(old)) = old
    THEN new \o str_replace(SubSeq(string, Len(old) + 1, Len(string)), old, new)
    ELSE <<Head(string)>> \o str_replace(Tail(string), old, new)

startswith(string, prefix) ==
    Len(string) >= Len(prefix) /\ SubSeq(string, 1, Len(prefix)) = prefix

\* a list of pairs in place of the mapping: the entry is added even if the key is there
put_append(data, col) == Append(data, col)

\* data[key] = val on an OrderedDict: a new key goes last, a known one keeps its place
put(data, col) == ColSet(data, col.id, col)

RECURSIVE put_all(_, _, _)
put_all(data, insert, i) ==
    IF i > Len(insert) THEN data ELSE put_all(put(data, insert[i]), insert, i + 1)

\* lines 249-257: the copy of `columns` with `insert` put in right after last_key
RECURSIVE insert_after_key(_, _, _, _, _)
insert_after_key(columns, insert, last_key, i, data) ==
    IF i > Len(columns) THEN data
    ELSE LET added == put(data, columns[i])
         IN  insert_after_key(columns, insert, last_key, i + 1,
                              IF columns[i].id = last_key THEN put_all(added, insert, 1)
                              ELSE added)

\* line 256: table.titles[k] = v.title, for every inserted column
RECURSIVE title_all(_, _, _)
title_all(titles, insert, i) ==
    IF i > Len(insert) THEN titles
    ELSE title_all(MapSet(titles, insert[i].id, insert[i].title), insert, i + 1)

\* lines 259-260, 269: the table-relative prefix of slot col_i of the array
slot_prefix(table, path, abs_path, key, col_i) ==
    get_pointer(table, str_join(separator, <<str_join(separator, <<abs_path, key>>), str(col_i)>>),
                path, TRUE, Empty)

\* lines 262-266: the combined columns of slot 0, in column order
zero_cols(table, zero_prefix) ==
    SelectSeq(table.combined_columns,
              LAMBDA col : /\ startswith(col.id, separator)
                           /\ common_prefix(col.id, zero_prefix) = zero_prefix)

\* lines 272-273: replace(col, id=col_id, hits=0)
clone(col, zero_prefix, col_prefix) ==
    [col EXCEPT !.id = str_replace(@, zero_prefix, col_prefix), !.hits = 0]

\* lines 271-273: the clones of the slot-0 columns for one slot
RECURSIVE slot_clones(_, _, _, _, _)
slot_clones(new, zero, zero_prefix, col_prefix, j) ==
    IF j > Len(zero) THEN new
    ELSE slot_clones(put(new, clone(zero[j], zero_prefix, col_prefix)),
                     zero, zero_prefix, col_prefix, j + 1)

\* lines 267-273: new_cols, for the slots 1..len(item)-1
RECURSIVE new_cols(_, _, _, _, _, _, _)
new_cols(new, table, path, abs_path, key, width, col_i) ==
    IF col_i >= width THEN new
    ELSE LET zero_prefix == slot_prefix(table, path, abs_path, key, 0)
         IN  new_cols(slot_clones(new, zero_cols(table, zero_prefix), zero_prefix,
                                  slot_prefix(table, path, abs_path, key, col_i), 1),
                      table, path, abs_path, key, width, col_i + 1)

\* lines 279-280: table.columns.pop(col_path, "") for every column of `gone`
without(columns, gone) == SelectSeq(columns, LAMBDA col : col.id \notin ColIds(gone))

\* lines 228-284: recalculate_headers on table `name` for an array of `width` items;
\* tbls maps the table names to the tables, the parent link is a name
RECURSIVE recalculate_headers(_, _, _, _, _, _, _)
recalculate_headers(tbls, name, path, abs_path, key, width, should_split) ==
    LET table == tbls[name]
        zero == zero_cols(table, slot_prefix(table, path, abs_path, key, 0))
        new == new_cols(<<>>, table, path, abs_path, key, width, 1)
        last_key == zero[Len(zero)].id
        combined == insert_after_key(table.combined_columns, new, last_key, 1, <<>>)
        titled == title_all(table.titles, new, 1)
        columns == IF should_split THEN without(table.columns, zero \o new)
                   ELSE insert_after_key(table.columns, new, last_key, 1, <<>>)
        done == [tbls EXCEPT ![name] = [table EXCEPT !.combined_columns = combined,
                                                     !.columns = columns,
                                                     !.titles = titled]]
    IN  IF Len(new) = 0 THEN tbls
        ELSE IF table.is_root THEN done
        ELSE recalculate_headers(done, table.parent, path, abs_path, key, width, should_split)

(*************************** recalculate_headers alone *********************)
MaxWidth == 3
MaxCalls == 3

Pointer(segs) == str_join(separator, <<Empty>> \o [i \in 1..Len(segs) |-> S(segs[i])])

P_items_description == Pointer(<<"tender", "items", "description">>)
P_items_class_0_id == Pointer(<<"tender", "items", "additionalClassifications", "0", "id">>)
P_items_0_class_0_id ==
    Pointer(<<"tender", "items", "0", "additionalClassifications", "0", "id">>)

\* The tables an analysis leaves when no release had more than one item or more
\* than one classification per item.
HeaderTables ==
    LET cols(ids) == [i \in 1..Len(ids) |-> Column(ids[i], S("Title"), "string")]
        titles(ids) == [p \in {ids[i] : i \in 1..Len(ids)} |-> S("Title")]
        table(name, path, parent, children, arrays, ids) ==
            [name |-> name, path |-> {path}, total_rows |-> 2, parent |-> parent,
             is_root |-> parent = NoTable, child_tables |-> children,
             types |-> EmptyMap, arrays |-> arrays,
             columns |-> cols(ids), combined_columns |-> cols(ids), titles |-> titles(ids)]
    IN  ("tenders" :>
            table("tenders", P_tender, NoTable, <<"tenders_items">>,
                  (P_tender_items :> 1) @@ (P_items_class :> 1),
                  <<P_tender_id, P_items_0_id, P_items_0_class_0_id, P_tender_tags>>))
        @@ ("tenders_items" :>
            table("tenders_items", P_tender_items, "tenders", <<"tenders_items_class">>,
                  (P_items_class :> 1),
                  <<P_items_id, P_items_class_0_id, P_items_description>>))
        @@ ("tenders_items_class" :>
            table("tenders_items_class", P_items_class, "tenders_items", <<>>,
                  EmptyMap, <<P_class_id>>))

\* the arrays recalculate_headers is called for, and the tables it is called on
HeaderCalls ==
    {[table |-> t, path |-> P_tender_items, abs_path |-> P_tender, key |-> S("items")] :
        t \in {"tenders", "tenders_items"}}
    \cup {[table |-> t, path |-> P_items_class,
           abs_path |-> Pointer(<<"tender", "items", "0">>),
           key |-> S("additionalClassifications")] :
            t \in {"tenders_items", "tenders_items_class"}}
    \cup {[table |-> "tenders", path |-> P_items_class,
           abs_path |-> Pointer(<<"tender", "items", "1">>),
           key |-> S("additionalClassifications")]}

InitHeaders ==
    /\ tables = HeaderTables
    /\ \E should_split \in BOOLEAN :
          given = [selection |-> EmptyMap, order |-> <<>>, count |-> FALSE,
                   releases |-> <<>>, zero |-> NoTable, scalars |-> TRUE,
                   should_split |-> should_split]
    /\ call = NoCall
    /\ returned = Empty
    /\ selection = EmptyMap
    /\ self_tables = <<>>
    /\ lookup_cache = EmptyMap
    /\ types_cache = EmptyMap
    /\ path_cache = EmptyMap
    /\ warnings = <<>>
    /\ pc = "headers"
    /\ error = ""
    /\ counter = 0
    /\ to_flatten = <<>>
    /\ rows = EmptyMap
    /\ repeat = EmptyMap
    /\ yielded = <<>>
    /\ emitted = <<>>

\* one call of recalculate_headers, with the should_split of the run; `yielded`
\* keeps the last call made, the tables before and after it, and whether the call
\* before it was the same call
RecalculateHeaders ==
    /\ pc = "headers"
    /\ counter < MaxCalls
    /\ \E c \in HeaderCalls, width \in 1..MaxWidth :
          /\ tables' = recalculate_headers(tables, c.table, c.path, c.abs_path, c.key,
                                           width, given.should_split)
          /\ yielded' = <<[args |-> c, width |-> width,
                            before |-> tables, after |-> tables',
                            repeated |-> /\ Len(yielded) = 1
                                         /\ yielded[1].args = c
                                         /\ yielded[1].width = width]>>
    /\ counter' = counter + 1
    /\ UNCHANGED <<given, self_tables, selection, lookup_cache, types_cache, path_cache,
                   warnings, pc, error, to_flatten, rows, repeat, emitted, call, returned>>

SpecHeaders == InitHeaders /\ [][RecalculateHeaders]_vars

(*************************** C11 *******************************************)
Keys(cols) == [i \in 1..Len(cols) |-> cols[i].id]
NoDuplicates(keys) == \A i, j \in 1..Len(keys) : keys[i] = keys[j] => i = j

HeaderTableNames == {"tenders", "tenders_items", "tenders_items_class"}

\* C11: a second call of recalculate_headers with the same table, array, width and
\* should_split leaves combined_columns, columns and titles of the table and of
\* every ancestor with the keys, in the order, they had after the first call, no
\* column twice.
C11_Idempotent ==
    (pc = "headers" /\ Len(yielded) = 1 /\ yielded[1].repeated)
    => \A n \in HeaderTableNames :
          LET first == yielded[1].before[n]
              second == yielded[1].after[n]
          IN  /\ Keys(second.combined_columns) = Keys(first.combined_columns)
              /\ Keys(second.columns) = Keys(first.columns)
              /\ DOMAIN second.titles = DOMAIN first.titles
              /\ NoDuplicates(Keys(second.combined_columns))
              /\ NoDuplicates(Keys(second.columns))

\* the same widening to three slots was run twice on a table below the root, and
\* the first run had added columns to it and to the root table
C11_Witness ==
    /\ pc = "headers"
    /\ counter = 2
    /\ yielded[1].repeated
    /\ yielded[1].width = 3
    /\ yielded[1].args.table = "tenders_items"
    /\ \A n \in {"tenders", "tenders_items"} :
          Len(yielded[1].before[n].combined_columns)
              > Len(HeaderTables[n].combined_columns)

(*************************** C15 *******************************************)
Pos(cols, id) == CHOOSE i \in 1..Len(cols) : cols[i].id = id

\* the slot-0 columns table n had when call h was made
SlotZero(h, n) ==
    zero_cols(h.before[n], slot_prefix(h.before[n], h.args.path, h.args.abs_path, h.args.key, 0))

\* the ids of the columns of the slots 1..width-1
CloneIds(h, n) ==
    LET table == h.before[n]
        zero == SlotZero(h, n)
    IN  {str_replace(zero[j].id,
                     slot_prefix(table, h.args.path, h.args.abs_path, h.args.key, 0),
                     slot_prefix(table, h.args.path, h.args.abs_path, h.args.key, i)) :
            j \in 1..Len(zero), i \in 1..(h.width - 1)}

\* the table the call was made on and the ancestors the widening went up to
RECURSIVE Widened(_, _)
Widened(h, n) ==
    IF h.width > 1 /\ Len(SlotZero(h, n)) > 0
    THEN {n} \cup (IF h.before[n].is_root THEN {} ELSE Widened(h, h.before[n].parent))
    ELSE {}

Placement(h, n) ==
    LET old == h.before[n].combined_columns
        now == h.after[n].combined_columns
        zero == SlotZero(h, n)
        fresh == CloneIds(h, n) \ ColIds(zero)
        last == Pos(now, zero[Len(zero)].id)
    IN  /\ CloneIds(h, n) \subseteq ColIds(now)
        /\ \A id \in CloneIds(h, n) \ ColIds(old) : ColGet(now, id).hits = 0
        /\ last + Cardinality(fresh) <= Len(now)
        /\ {now[i].id : i \in (last + 1)..(last + Cardinality(fresh))} = fresh
        /\ SelectSeq(Keys(now), LAMBDA id : id \in ColIds(old)) = Keys(old)

\* C15: after recalculate_headers has processed an array of width n > 1 on a table,
\* combined_columns holds for every slot-0 column and every i in 1..n-1 the column
\* with the slot-i prefix in place of the slot-0 prefix, the clones that are new
\* have hits = 0, the clones come right after the last slot-0 column, and the
\* columns that were there before keep their order, also on a table widened before.
C15_Placement ==
    pc = "headers"
    => \A k \in 1..Len(yielded) :
          \A n \in Widened(yielded[k], yielded[k].args.table) : Placement(yielded[k], n)

====
